---- MODULE Spec2Model ----
(***************************************************************************)
(* A model of the SIG Auth project-board import tool (main.go).            *)
(*                                                                         *)
(* The program is a one-shot batch job: it resolves the project board and  *)
(* two options of its Status field, walks the issues of the kubernetes     *)
(* org repositories and of the k8s-sig-auth repositories of the            *)
(* kubernetes-sigs org, adds every issue to the board and sets the Status  *)
(* of the items that have none.  Every error is passed to must(), which    *)
(* panics.                                                                 *)
(*                                                                         *)
(* GitHub is the environment: the board (board), the project schema        *)
(* (orgProject) and the repositories with their issues (repoIssues).  One   *)
(* action is one API round trip of the program together with the local     *)
(* code that follows it up to the next round trip.                         *)
(***************************************************************************)
EXTENDS Naturals, Sequences, FiniteSets, TLC

\* ---------------------------------------------------------------- bounds
\* Repositories listed over both organizations together.
MaxRepos == 2
\* Issues and pull requests listed over all repositories together.
MaxDiscovered == 2
\* Options of the Status field in the lookup specification.
MaxOptions == 2
\* Status changes made by someone else during the runs (SpecExt only).
MaxExternalWrites == 1

\* ------------------------------------------------------------- constants
kubernetesOrgName == "kubernetes"
kubernetesSIGSOrgName == "kubernetes-sigs"
Orgs == {kubernetesOrgName, kubernetesSIGSOrgName}

\* Go strings that the program compares or measures are sequences of
\* characters, so that equality, prefix and case are different things.
needsTriageColumnName == <<"N","e","e","d","s"," ","T","r","i","a","g","e">>
subprojectNeedsTriageColumnName ==
    <<"S","u","b","p","r","o","j","e","c","t","s"," ","-"," ">> \o needsTriageColumnName
\* Other labels a board may carry.
inProgressName == <<"I","n"," ","P","r","o","g","r","e","s","s">>
needsName == <<"N","e","e","d","s">>
lowerNeedsTriageName == <<"n","e","e","d","s"," ","t","r","i","a","g","e">>

\* The error values of the run (the spec's taxonomy; the code passes the
\* library's error through) and the runtime panic of a nil dereference.
NoErr == "nil"
NotFound == "NotFound"
TransportError == "TransportError"
AddFailed == "AddFailed"
UpdateFailed == "UpdateFailed"
NilDeref == "nil pointer dereference"

\* A nil *string.
Nil == "<nil>"
\* Global node ids of issues and pull requests.
NodeIDSeq == <<"I_1", "I_2">>
NodeIDs == {NodeIDSeq[i] : i \in DOMAIN NodeIDSeq}
\* github.Issue, reduced to the field the program passes on.
Issues == [NodeID : NodeIDs \cup {Nil}]

\* ----------------------------------------------------------------- state
VARIABLES
    \* GitHub
    orgProject,     \* projectV2(number: 116) of the kubernetes org
    repoIssues,     \* org -> sequence (one entry per repository) of issue lists
    board,          \* the project's items: item id (index) -> [content, status]
    extWrites,      \* status changes made by someone else so far
    \* main
    pc,
    panicValue,     \* the value the process panicked with, "" if none
    project,
    needsTriageStatusFieldID, needsTriageOptionID,
    subprojectStatusFieldID, subprojectNeedsTriageOptionID,
    repos,          \* the repositories the current loop has not finished
    items,          \* the issues of the current repository not yet finished
    \* addAndUpdateProjectItem
    item, fieldID, optionID, projectItem,
    \* getStatusFieldOption called on its own (LookupSpec)
    lookup,
    \* history
    calls,          \* the mutations this run has sent, outcome included
    board0,         \* the board when the first run started
    rerun           \* whether an earlier run panicked

github == <<orgProject, repoIssues, board, extWrites>>
locals == <<project, needsTriageStatusFieldID, needsTriageOptionID,
            subprojectStatusFieldID, subprojectNeedsTriageOptionID,
            repos, items, item, fieldID, optionID, projectItem>>
vars == <<github, pc, panicValue, locals, lookup, calls, board0, rerun>>

\* ------------------------------------------------------------ the schema
\* The zero ProjectV2: what the query returns when there is no such project.
NoProject == [ID |-> "", Field |-> [ID |-> "", Options |-> <<>>]]

StatusField(options) == [ID |-> "PVTSSF_1", Options |-> options]

Option(id, name) == [ID |-> id, Name |-> name]

\* The boards the runs are checked on: the project is missing, or it has
\* "In Progress" and any of the two triage options.
Projects ==
    {NoProject} \cup
    { [ID |-> "PVT_1", Field |-> StatusField(<<Option("O_1", inProgressName)>> \o o)] :
        o \in { <<>>,
                <<Option("O_2", needsTriageColumnName)>>,
                <<Option("O_3", subprojectNeedsTriageColumnName)>>,
                <<Option("O_2", needsTriageColumnName),
                  Option("O_3", subprojectNeedsTriageColumnName)>> } }

\* The lower-case letter of a character.
lowerChar(c) ==
    CASE c = "N" -> "n" [] c = "T" -> "t" [] c = "S" -> "s"
      [] c = "I" -> "i" [] c = "P" -> "p" [] OTHER -> c

\* A variant of sameString: the comparison of strings.EqualFold.
equalFold(a, b) ==
    /\ Len(a) = Len(b)
    /\ \A i \in DOMAIN a : lowerChar(a[i]) = lowerChar(b[i])

\* string(opt.Name) == desired
sameString(a, b) == a = b

RECURSIVE scanOptions(_, _, _)
scanOptions(field, desired, i) ==
    IF i > Len(field.Options)
    THEN [fieldID |-> "", optionID |-> "", err |-> NotFound]
    ELSE IF sameString(field.Options[i].Name, desired)
         THEN [fieldID |-> field.ID, optionID |-> field.Options[i].ID, err |-> NoErr]
         ELSE scanOptions(field, desired, i + 1)

\* A variant of getStatusFieldOption: a missing option is no error.
getStatusFieldOptionLenient(p, desired) ==
    [scanOptions(p.Field, desired, 1) EXCEPT !.err = NoErr]

getStatusFieldOption(p, desired) == scanOptions(p.Field, desired, 1)

\* A variant of must: the error is reported and the run goes on.
mustReport(err, next) == next

\* must(err), as the place the program goes on from.
must(err, next) == IF err # NoErr THEN "panicked" ELSE next

\* panic(err) carries the error.
Died(err, next) == IF must(err, next) = "panicked" THEN err ELSE ""

\* ---------------------------------------------------------------- GitHub
\* The item of the board that holds the content, 0 if none does.
ItemOf(b, content) ==
    IF \E i \in DOMAIN b : b[i].content = content
    THEN CHOOSE i \in DOMAIN b : b[i].content = content
    ELSE 0

\* The addProjectV2ItemById mutation: the item is created with no status
\* ("When the item is added to the project, the status field is not set"),
\* and a content that is on the board already keeps the item it has, which
\* the mutation returns.
serverAdd(b, content) ==
    IF ItemOf(b, content) # 0 THEN b
    ELSE Append(b, [content |-> content, status |-> <<>>])

\* The name of the option the ids stand for, <<>> if they stand for none.
optionName(p, fid, oid) ==
    IF fid = p.Field.ID /\ \E i \in DOMAIN p.Field.Options : p.Field.Options[i].ID = oid
    THEN p.Field.Options[CHOOSE i \in DOMAIN p.Field.Options : p.Field.Options[i].ID = oid].Name
    ELSE <<>>

\* A variant of serverUpdate: a status that is set is kept (a guarded write).
serverUpdateIfUnset(b, id, name) ==
    IF b[id].status = <<>> THEN [b EXCEPT ![id].status = name] ELSE b

\* The updateProjectV2ItemFieldValue mutation: the value is set, whatever
\* it was.
serverUpdate(b, id, name) == [b EXCEPT ![id].status = name]

\* How a mutation can end: answered; refused or lost before it was applied;
\* applied, and the answer lost (the run's deadline, the connection).
Outcomes == {"ok", "failed", "lost"}

\* ------------------------------------------------------------------ main
ListPc(org) == IF org = kubernetesOrgName THEN "k8sList" ELSE "sigsList"
AddPc(org) == IF org = kubernetesOrgName THEN "k8sAdd" ELSE "sigsAdd"
UpdatePc(org) == IF org = kubernetesOrgName THEN "k8sUpdate" ELSE "sigsUpdate"
ExitPc(org) == IF org = kubernetesOrgName THEN "searchRepos" ELSE "done"

\* The head of a loop over repositories rs: list the first one's issues, or
\* leave the loop.
NextRepo(org, rs) ==
    [pc |-> IF rs = <<>> THEN ExitPc(org) ELSE ListPc(org), repos |-> rs, items |-> <<>>]

\* The head of the loop over the issues is of a repository.
NextItem(org, rs, is) ==
    IF is = <<>> THEN NextRepo(org, Tail(rs))
    ELSE [pc |-> AddPc(org), repos |-> rs, items |-> is]

\* must(err) after a call in a loop, and the loop going on to nx.
Continue(err, nx) ==
    /\ pc' = must(err, nx.pc)
    /\ panicValue' = Died(err, nx.pc)
    /\ IF pc' = "panicked"
       THEN UNCHANGED <<repos, items>>
       ELSE repos' = nx.repos /\ items' = nx.items

getProject(answered) ==
    IF ~answered THEN [project |-> NoProject, err |-> TransportError]
    ELSE IF orgProject.ID = "" THEN [project |-> NoProject, err |-> NotFound]
    ELSE [project |-> orgProject, err |-> NoErr]

GetProject ==
    /\ pc = "getProject"
    /\ \E answered \in BOOLEAN :
         LET r == getProject(answered) IN
           /\ project' = r.project
           /\ pc' = must(r.err, "resolveNeedsTriage")
           /\ panicValue' = Died(r.err, "resolveNeedsTriage")
    /\ UNCHANGED <<github, needsTriageStatusFieldID, needsTriageOptionID,
                   subprojectStatusFieldID, subprojectNeedsTriageOptionID,
                   repos, items, item, fieldID, optionID, projectItem,
                   lookup, calls, board0, rerun>>

ResolveNeedsTriage ==
    /\ pc = "resolveNeedsTriage"
    /\ LET r == getStatusFieldOption(project, needsTriageColumnName) IN
         /\ needsTriageStatusFieldID' = r.fieldID
         /\ needsTriageOptionID' = r.optionID
         /\ pc' = must(r.err, "resolveSubproject")
         /\ panicValue' = Died(r.err, "resolveSubproject")
    /\ UNCHANGED <<github, project,
                   subprojectStatusFieldID, subprojectNeedsTriageOptionID,
                   repos, items, item, fieldID, optionID, projectItem,
                   lookup, calls, board0, rerun>>

ResolveSubproject ==
    /\ pc = "resolveSubproject"
    /\ LET r == getStatusFieldOption(project, subprojectNeedsTriageColumnName) IN
         /\ subprojectStatusFieldID' = r.fieldID
         /\ subprojectNeedsTriageOptionID' = r.optionID
         /\ pc' = must(r.err, "listRepos")
         /\ panicValue' = Died(r.err, "listRepos")
    /\ UNCHANGED <<github, project, needsTriageStatusFieldID, needsTriageOptionID,
                   repos, items, item, fieldID, optionID, projectItem,
                   lookup, calls, board0, rerun>>

\* listRepos and searchReposByTopic: the organization's repositories, by
\* name (the place in repoIssues), or the error of the first failed page.
listing(org, answered) ==
    IF answered
    THEN [repos |-> [i \in 1..Len(repoIssues[org]) |-> i], err |-> NoErr]
    ELSE [repos |-> <<>>, err |-> TransportError]

ListOrgRepos(org, at) ==
    /\ pc = at
    /\ \E answered \in BOOLEAN :
         LET r == listing(org, answered) IN Continue(r.err, NextRepo(org, r.repos))
    /\ UNCHANGED <<github, project, needsTriageStatusFieldID, needsTriageOptionID,
                   subprojectStatusFieldID, subprojectNeedsTriageOptionID,
                   item, fieldID, optionID, projectItem,
                   lookup, calls, board0, rerun>>

ListRepos == ListOrgRepos(kubernetesOrgName, "listRepos")

SearchReposByTopic == ListOrgRepos(kubernetesSIGSOrgName, "searchRepos")

listIssuesAndPullRequests(org, repo, answered) ==
    IF answered THEN [issues |-> repoIssues[org][repo], err |-> NoErr]
    ELSE [issues |-> <<>>, err |-> TransportError]

ListIssues(org) ==
    /\ pc = ListPc(org)
    /\ \E answered \in BOOLEAN :
         LET r == listIssuesAndPullRequests(org, Head(repos), answered) IN
           Continue(r.err, NextItem(org, repos, r.issues))
    /\ UNCHANGED <<github, project, needsTriageStatusFieldID, needsTriageOptionID,
                   subprojectStatusFieldID, subprojectNeedsTriageOptionID,
                   item, fieldID, optionID, projectItem,
                   lookup, calls, board0, rerun>>

\* The field and option main passes for the items of the kubernetes org ...
needsTriageTarget ==
    [fieldID |-> needsTriageStatusFieldID, optionID |-> needsTriageOptionID]

\* A variant of subprojectTarget: the arguments of the first loop, copied.
subprojectTargetCopied ==
    [fieldID |-> needsTriageStatusFieldID, optionID |-> needsTriageOptionID]

\* ... and for the items of the subprojects.
subprojectTarget ==
    [fieldID |-> subprojectStatusFieldID, optionID |-> subprojectNeedsTriageOptionID]

Target(org) == IF org = kubernetesOrgName THEN needsTriageTarget ELSE subprojectTarget

\* Variants of statusIsUnset: the test is missing; the test is inverted.
statusNotTested(pi) == TRUE

statusIsSet(pi) == Len(pi.Name) # 0

\* len(projectItem.FieldValueByName.ProjectV2SingleSelectField.Name) == 0
statusIsUnset(pi) == Len(pi.Name) = 0

NoItem == [ID |-> 0, Name |-> <<>>]
NoIssue == [NodeID |-> Nil]

Call(op, content, id, target, err, name, old) ==
    [op |-> op, contentID |-> content, itemID |-> id, fieldID |-> target.fieldID,
     optionID |-> target.optionID, err |-> err, Name |-> name, old |-> old]

\* main calls addAndUpdateProjectItem for the first of items; the call
\* dereferences item.NodeID and sends the add mutation.  With the item's
\* status unset the call goes on to the update; otherwise it returns.
\* (The Number and Title the progress lines print are taken to be there.)
Reconcile(org) ==
    /\ pc = AddPc(org)
    /\ item' = Head(items)
    /\ fieldID' = Target(org).fieldID
    /\ optionID' = Target(org).optionID
    /\ IF Head(items).NodeID = Nil
       THEN /\ pc' = "panicked"
            /\ panicValue' = NilDeref
            /\ UNCHANGED <<board, calls, projectItem, repos, items>>
       ELSE \E outcome \in Outcomes :
              LET content == Head(items).NodeID
                  b == IF outcome = "failed" THEN board ELSE serverAdd(board, content)
                  err == IF outcome = "ok" THEN NoErr ELSE AddFailed
                  id == ItemOf(b, content)
                  pi == IF err = NoErr THEN [ID |-> id, Name |-> b[id].status] ELSE NoItem
              IN
                /\ board' = b
                /\ projectItem' = pi
                /\ calls' = Append(calls, Call("add", content, pi.ID, Target(org), err, pi.Name, <<>>))
                /\ IF err = NoErr /\ statusIsUnset(pi)
                   THEN /\ pc' = UpdatePc(org)
                        /\ UNCHANGED <<panicValue, repos, items>>
                   ELSE Continue(err, NextItem(org, repos, Tail(items)))
    /\ UNCHANGED <<orgProject, repoIssues, extWrites, project,
                   needsTriageStatusFieldID, needsTriageOptionID,
                   subprojectStatusFieldID, subprojectNeedsTriageOptionID,
                   lookup, board0, rerun>>

\* updateProjectItemField, then the return to main and must(err).
Update(org) ==
    /\ pc = UpdatePc(org)
    /\ \E outcome \in Outcomes :
         LET name == optionName(orgProject, fieldID, optionID)
             applied == outcome # "failed" /\ name # <<>>
             err == IF outcome = "ok" /\ name # <<>> THEN NoErr ELSE UpdateFailed
             old == board[projectItem.ID].status
         IN
           /\ board' = IF applied THEN serverUpdate(board, projectItem.ID, name) ELSE board
           /\ calls' = Append(calls, Call("update", item.NodeID, projectItem.ID,
                                          [fieldID |-> fieldID, optionID |-> optionID],
                                          err, board'[projectItem.ID].status, old))
           /\ Continue(err, NextItem(org, repos, Tail(items)))
    /\ UNCHANGED <<orgProject, repoIssues, extWrites, project,
                   needsTriageStatusFieldID, needsTriageOptionID,
                   subprojectStatusFieldID, subprojectNeedsTriageOptionID,
                   item, fieldID, optionID, projectItem, lookup, board0, rerun>>

K8sListIssues == ListIssues(kubernetesOrgName)
K8sReconcile == Reconcile(kubernetesOrgName)
K8sUpdate == Update(kubernetesOrgName)
SigsListIssues == ListIssues(kubernetesSIGSOrgName)
SigsReconcile == Reconcile(kubernetesSIGSOrgName)
SigsUpdate == Update(kubernetesSIGSOrgName)

\* The process as it starts.
Start ==
    /\ pc = "getProject"
    /\ panicValue = ""
    /\ project = NoProject
    /\ needsTriageStatusFieldID = ""
    /\ needsTriageOptionID = ""
    /\ subprojectStatusFieldID = ""
    /\ subprojectNeedsTriageOptionID = ""
    /\ repos = <<>>
    /\ items = <<>>
    /\ item = NoIssue
    /\ fieldID = ""
    /\ optionID = ""
    /\ projectItem = NoItem
    /\ calls = <<>>

\* The tool is run again after a run that panicked.
Rerun ==
    /\ pc = "panicked"
    /\ pc' = "getProject"
    /\ panicValue' = ""
    /\ project' = NoProject
    /\ needsTriageStatusFieldID' = ""
    /\ needsTriageOptionID' = ""
    /\ subprojectStatusFieldID' = ""
    /\ subprojectNeedsTriageOptionID' = ""
    /\ repos' = <<>>
    /\ items' = <<>>
    /\ item' = NoIssue
    /\ fieldID' = ""
    /\ optionID' = ""
    /\ projectItem' = NoItem
    /\ calls' = <<>>
    /\ rerun' = TRUE
    /\ UNCHANGED <<github, lookup, board0>>

\* Someone else sets the status of an item of the board while the tool runs.
ExternalWrite ==
    /\ pc \notin {"done", "panicked"}
    /\ extWrites < MaxExternalWrites
    /\ \E i \in DOMAIN board :
         board' = [board EXCEPT ![i].status = inProgressName]
    /\ extWrites' = extWrites + 1
    /\ UNCHANGED <<orgProject, repoIssues, pc, panicValue, locals, lookup,
                   calls, board0, rerun>>

\* ------------------------------------------------------------------ Init
RECURSIVE Total(_)
Total(rs) == IF rs = <<>> THEN 0 ELSE Len(Head(rs)) + Total(Tail(rs))

ItemLists(t) == UNION {[1..n -> Issues] : n \in 0..t}

\* The lists of at most n repositories with at most t issues in all.
RECURSIVE RepoLists(_, _)
RepoLists(n, t) ==
    IF n = 0 THEN {<<>>}
    ELSE {<<>>} \cup
         UNION { {<<l>> \o r : r \in RepoLists(n - 1, t - Len(l))} : l \in ItemLists(t) }

\* The boards a run may find: any of the contents is on it, with no status
\* or with one somebody set.
RECURSIVE BoardsFrom(_)
BoardsFrom(i) ==
    IF i > Len(NodeIDSeq) THEN {<<>>}
    ELSE LET rest == BoardsFrom(i + 1) IN
         rest \cup UNION { {<<[content |-> NodeIDSeq[i], status |-> s]>> \o b : b \in rest} :
                           s \in {<<>>, inProgressName} }

Init ==
    /\ orgProject \in Projects
    /\ \E k \in RepoLists(MaxRepos, MaxDiscovered) :
         \E s \in RepoLists(MaxRepos - Len(k), MaxDiscovered - Total(k)) :
           repoIssues = (kubernetesOrgName :> k) @@ (kubernetesSIGSOrgName :> s)
    /\ board \in BoardsFrom(1)
    /\ extWrites = 0
    /\ Start
    /\ lookup = <<>>
    /\ board0 = board
    /\ rerun = FALSE

\* One run of the program.
Run ==
    \/ GetProject
    \/ ResolveNeedsTriage
    \/ ResolveSubproject
    \/ ListRepos
    \/ K8sListIssues
    \/ K8sReconcile
    \/ K8sUpdate
    \/ SearchReposByTopic
    \/ SigsListIssues
    \/ SigsReconcile
    \/ SigsUpdate

\* Runs, each after the one before panicked, with nobody else writing.
Next == Run \/ Rerun

Spec == Init /\ [][Next]_vars

\* One run, with someone else changing statuses.
NextExt == Run \/ ExternalWrite

SpecExt == Init /\ [][NextExt]_vars

\* ------------------------------------------- getStatusFieldOption alone
\* The labels the lookup is tried on: the two the program asks for, one in
\* another case, a proper prefix of one, and an unrelated one.
LabelPool == {needsTriageColumnName, subprojectNeedsTriageColumnName,
              lowerNeedsTriageName, needsName, inProgressName}

OptionIDSeq == <<"O_1", "O_2", "O_3", "O_4">>

\* The projects whose Status field has at most MaxOptions options, labelled
\* from the pool (twice the same label included).
LookupProjects ==
    { [ID |-> "PVT_1",
       Field |-> StatusField([i \in DOMAIN names |-> Option(OptionIDSeq[i], names[i])])] :
        names \in UNION {[1..n -> LabelPool] : n \in 0..MaxOptions} }

LookupInit ==
    /\ project \in LookupProjects
    /\ orgProject = project
    /\ repoIssues = (kubernetesOrgName :> <<>>) @@ (kubernetesSIGSOrgName :> <<>>)
    /\ board = <<>>
    /\ extWrites = 0
    /\ pc = "lookup"
    /\ panicValue = ""
    /\ needsTriageStatusFieldID = ""
    /\ needsTriageOptionID = ""
    /\ subprojectStatusFieldID = ""
    /\ subprojectNeedsTriageOptionID = ""
    /\ repos = <<>>
    /\ items = <<>>
    /\ item = NoIssue
    /\ fieldID = ""
    /\ optionID = ""
    /\ projectItem = NoItem
    /\ calls = <<>>
    /\ lookup = <<>>
    /\ board0 = board
    /\ rerun = FALSE

Lookup ==
    /\ pc = "lookup"
    /\ \E desired \in LabelPool :
         lookup' = <<[desired |-> desired] @@ getStatusFieldOption(project, desired)>>
    /\ UNCHANGED <<github, pc, panicValue, locals, calls, board0, rerun>>

LookupSpec == LookupInit /\ [][Lookup]_vars

\* ---------------------------------------------------------------- claims
Last(s) == s[Len(s)]
UpdatePcs == {UpdatePc(org) : org \in Orgs}
\* This step sent a mutation.
Sent == Len(calls') = Len(calls) + 1
Adds == {j \in DOMAIN calls : calls[j].op = "add"}
Updates == {j \in DOMAIN calls : calls[j].op = "update"}
HasStatus(b, content) == ItemOf(b, content) # 0 /\ b[ItemOf(b, content)].status # <<>>

\* C1: Non-clobbering.  When addAndUpdateProjectItem is called for an issue
\* whose item on the board has a status, whatever the status is, the call
\* sends no status write and the item's status is after the call what it was
\* before.
C1_NonClobbering ==
    [][ \A org \in Orgs :
          (/\ pc = AddPc(org)
           /\ Head(items).NodeID # Nil
           /\ HasStatus(board, Head(items).NodeID))
          => LET id == ItemOf(board, Head(items).NodeID) IN
               /\ pc' \notin UpdatePcs
               /\ Sent /\ Last(calls').op = "add"
               /\ id \in DOMAIN board'
               /\ board'[id] = board[id] ]_vars

\* An add was answered with "In Progress", with a triage option the target,
\* and the call returned.
C1_Witness ==
    /\ calls # <<>>
    /\ Last(calls).op = "add"
    /\ Last(calls).err = NoErr
    /\ Last(calls).Name = inProgressName
    /\ Last(calls).optionID = "O_3"
    /\ pc \notin UpdatePcs
    /\ board[Last(calls).itemID].status = inProgressName

\* The status the item has when call i (an add that found no error) is over.
StatusAfter(i) == IF calls[i].Name # <<>> THEN calls[i].Name ELSE calls[i + 1].Name

SameCall(i, j) ==
    /\ i < j
    /\ calls[i].contentID = calls[j].contentID
    /\ calls[i].fieldID = calls[j].fieldID
    /\ calls[i].optionID = calls[j].optionID

\* C2: Idempotence.  When addAndUpdateProjectItem is called a second time
\* with the same content and the same target, and nobody else changed the
\* status, the second add returns the item the first returned, the board
\* holds one item for the content, the status is the one the first call
\* left, and the second call sends no status write.
C2_Idempotence ==
    \A i \in Adds : \A j \in Adds :
      (SameCall(i, j) /\ calls[j].err = NoErr)
      => /\ calls[j].itemID = calls[i].itemID
         /\ Cardinality({k \in DOMAIN board : board[k].content = calls[j].contentID}) = 1
         /\ calls[j].Name # <<>>
         /\ calls[j].Name = StatusAfter(i)
         /\ board[calls[j].itemID].status = StatusAfter(i)
         /\ \A k \in Updates : calls[k].itemID = calls[j].itemID => k < j

\* The first of two equal calls created the item and wrote its status.
C2_Witness ==
    \E i \in Adds : \E j \in Adds :
      /\ SameCall(i, j)
      /\ calls[j].err = NoErr
      /\ calls[i].Name = <<>>
      /\ calls[i].itemID > Len(board0)
      /\ calls[j].Name = needsTriageColumnName

\* C3: Fail-fast.  A mutation that returns an error is the last one of the
\* run: nothing is sent for any later item, and the run has panicked with
\* that error instead of completing.
C3_FailFast ==
    \A j \in DOMAIN calls :
      calls[j].err # NoErr
      => /\ j = Len(calls)
         /\ pc = "panicked"
         /\ panicValue = calls[j].err

\* A mutation for an issue of the first repository failed with a second
\* repository of the organization, which has an issue, still to come.
C3_Witness ==
    /\ calls # <<>>
    /\ Last(calls).err # NoErr
    /\ Last(calls).optionID = "O_2"
    /\ Len(repos) > 1
    /\ repoIssues[kubernetesOrgName][repos[2]] # <<>>
    /\ pc = "panicked"

\* The id of the option of the board's Status field with exactly this label.
OptionIDOf(name) ==
    LET o == orgProject.Field.Options
        hits == {i \in DOMAIN o : o[i].Name = name}
    IN IF hits = {} THEN "" ELSE o[CHOOSE i \in hits : TRUE].ID

\* C4: Category-to-bucket mapping.  Every status write sent for an issue of
\* the kubernetes org loop carries the id of the option "Needs Triage", and
\* every one sent for an issue of the subprojects loop the id of the option
\* "Subprojects - Needs Triage"; none carries the other loop's option.
C4_CategoryMapping ==
    [][ \A org \in Orgs :
          (pc = UpdatePc(org) /\ Sent)
          => /\ Last(calls').op = "update"
             /\ Last(calls').fieldID = orgProject.Field.ID
             /\ Last(calls').optionID =
                  OptionIDOf(IF org = kubernetesOrgName THEN needsTriageColumnName
                             ELSE subprojectNeedsTriageColumnName) ]_vars

\* One run wrote a status in each of the two loops.
C4_Witness ==
    /\ \E j \in Updates : calls[j].optionID = "O_2" /\ calls[j].Name = needsTriageColumnName
    /\ \E j \in Updates :
         calls[j].optionID = "O_3" /\ calls[j].Name = subprojectNeedsTriageColumnName

UniqueLabels(o) == \A i \in DOMAIN o : \A j \in DOMAIN o : o[i].Name = o[j].Name => i = j

\* C5: Exact-match lookup.  On a Status field whose options have different
\* labels, getStatusFieldOption returns the field id and the id of the
\* option whose label is the requested one character for character, and
\* NotFound with empty ids when there is no such option.
C5_ExactMatch ==
    \A n \in DOMAIN lookup :
      LET l == lookup[n]
          o == project.Field.Options
          hits == {i \in DOMAIN o : o[i].Name = l.desired}
      IN UniqueLabels(o)
         => IF hits # {}
            THEN /\ l.err = NoErr
                 /\ l.fieldID = project.Field.ID
                 /\ \E i \in hits : l.optionID = o[i].ID
            ELSE /\ l.err = NotFound
                 /\ l.fieldID = ""
                 /\ l.optionID = ""

\* "Needs Triage" was found behind an option that differs from it in case
\* only.
C5_Witness ==
    /\ lookup # <<>>
    /\ lookup[1].desired = needsTriageColumnName
    /\ Len(project.Field.Options) = 2
    /\ project.Field.Options[1].Name = lowerNeedsTriageName
    /\ lookup[1].err = NoErr
    /\ lookup[1].optionID = "O_2"

RECURSIVE Flatten(_)
Flatten(rs) == IF rs = <<>> THEN <<>> ELSE Head(rs) \o Flatten(Tail(rs))

\* What the runs discover, in the order of a run, each with its bucket.
Discovered ==
    [i \in 1..Total(repoIssues[kubernetesOrgName]) |->
       [content |-> Flatten(repoIssues[kubernetesOrgName])[i].NodeID,
        label |-> needsTriageColumnName]]
    \o
    [i \in 1..Total(repoIssues[kubernetesSIGSOrgName]) |->
       [content |-> Flatten(repoIssues[kubernetesSIGSOrgName])[i].NodeID,
        label |-> subprojectNeedsTriageColumnName]]

\* The board one run that nothing interrupts makes of board b.
RECURSIVE Uninterrupted(_, _)
Uninterrupted(b, d) ==
    IF d = <<>> THEN b
    ELSE LET c == Head(d).content
             b1 == IF \E i \in DOMAIN b : b[i].content = c THEN b
                   ELSE Append(b, [content |-> c, status |-> <<>>])
             b2 == [i \in DOMAIN b1 |->
                      IF b1[i].content = c /\ b1[i].status = <<>>
                      THEN [content |-> c, status |-> Head(d).label]
                      ELSE b1[i]]
         IN Uninterrupted(b2, Tail(d))

NoDuplicates ==
    \A a \in DOMAIN board : \A b \in DOMAIN board :
      board[a].content = board[b].content => a = b

ItemsKept ==
    \A i \in DOMAIN board : i \in DOMAIN board' /\ board'[i].content = board[i].content

StatusKept ==
    \A i \in DOMAIN board :
      board[i].status # <<>> => i \in DOMAIN board' /\ board'[i].status = board[i].status

\* C6: Re-run safety.  In a run that follows a run that panicked, with
\* nobody else changing the board: no content gets a second item, no status
\* that is set is changed, and when the run completes every discovered issue
\* is on the board with a status and the board is the one a single run that
\* nothing interrupted would have made of the first board.
C6_RerunSafe ==
    /\ [](rerun => NoDuplicates)
    /\ [][rerun' => StatusKept]_vars
    /\ []((rerun /\ pc = "done")
          => /\ board = Uninterrupted(board0, Discovered)
             /\ \A i \in DOMAIN Discovered : HasStatus(board, Discovered[i].content))

\* A run completed after a run that had panicked with the status of an item
\* written, and wrote the status of another item.
C6_Witness ==
    /\ rerun
    /\ pc = "done"
    /\ \E j \in Updates : calls[j].err = NoErr
    /\ \E j \in Adds :
         /\ calls[j].Name \in {needsTriageColumnName, subprojectNeedsTriageColumnName}
         /\ \A i \in Adds : i < j => calls[i].contentID # calls[j].contentID
    /\ Len(board) > Len(board0)

\* C7: Content-id precondition.  addAndUpdateProjectItem is never entered
\* with an issue whose NodeID is nil.
C7_ContentIdPrecondition ==
    ~(item.NodeID = Nil /\ panicValue = NilDeref)

WritesTo(id) == {j \in Updates : calls[j].itemID = id}

\* C8: At most one write per item per run.  A run sends at most one status
\* write for an item of the board, also when the lists yield the same
\* content more than once, and no item is ever taken off the board.
C8_AtMostOneWrite ==
    /\ [](\A id \in DOMAIN board : Cardinality(WritesTo(id)) <= 1)
    /\ [][ItemsKept]_vars

\* The same content came up in both loops, and one status write was sent.
C8_Witness ==
    \E i \in Adds : \E j \in Adds :
      /\ i < j
      /\ calls[i].contentID = calls[j].contentID
      /\ calls[i].optionID = "O_2"
      /\ calls[j].optionID = "O_3"
      /\ calls[j].err = NoErr
      /\ Cardinality(WritesTo(calls[j].itemID)) = 1

SchemaMissing ==
    \/ orgProject.ID = ""
    \/ OptionIDOf(needsTriageColumnName) = ""
    \/ OptionIDOf(subprojectNeedsTriageColumnName) = ""

SchemaResolved ==
    /\ project = orgProject
    /\ project.ID # ""
    /\ needsTriageStatusFieldID = orgProject.Field.ID
    /\ subprojectStatusFieldID = orgProject.Field.ID
    /\ needsTriageOptionID # ""
    /\ needsTriageOptionID = OptionIDOf(needsTriageColumnName)
    /\ subprojectNeedsTriageOptionID # ""
    /\ subprojectNeedsTriageOptionID = OptionIDOf(subprojectNeedsTriageColumnName)

StartupPcs == {"getProject", "resolveNeedsTriage", "resolveSubproject"}

\* C9: Schema resolution precedes all mutation.  The project and the two
\* options are resolved before anything is listed or sent; with the project
\* or one of the options missing the run lists nothing, sends nothing, and
\* panics with NotFound (unless the project query itself failed).
C9_SchemaFirst ==
    /\ (pc \notin StartupPcs \cup {"panicked"} \/ calls # <<>>) => SchemaResolved
    /\ SchemaMissing
       => /\ calls = <<>>
          /\ board = board0
          /\ pc \in StartupPcs \cup {"panicked"}
          /\ pc = "panicked"
             => \/ panicValue = NotFound
                \/ panicValue = TransportError /\ project = NoProject

\* The run panicked with NotFound for the subprojects option, with "Needs
\* Triage" resolved and issues of the kubernetes org to add.
C9_Witness ==
    /\ pc = "panicked"
    /\ panicValue = NotFound
    /\ needsTriageOptionID = "O_2"
    /\ subprojectNeedsTriageOptionID = ""
    /\ Total(repoIssues[kubernetesOrgName]) > 0
    /\ calls = <<>>

\* C10: Unguarded check-then-act.  The write rests on the status the add
\* returned alone: once the add has returned no status, the program's next
\* step sends the write whatever the status on the board has become, and a
\* write that is answered leaves the target option as the item's status.
C10_LastWriteWins ==
    [][ \A org \in Orgs :
          (pc = UpdatePc(org) /\ extWrites' = extWrites)
          => /\ projectItem.Name = <<>>
             /\ Sent
             /\ Last(calls').op = "update"
             /\ Last(calls').itemID = projectItem.ID
             /\ Last(calls').err = NoErr
                => board'[projectItem.ID].status = optionName(orgProject, fieldID, optionID) ]_vars

\* A write was answered for an item whose status someone else had set after
\* the add returned.
C10_Witness ==
    /\ calls # <<>>
    /\ Last(calls).op = "update"
    /\ Last(calls).err = NoErr
    /\ Last(calls).old = inProgressName
    /\ calls[Len(calls) - 1].Name = <<>>
    /\ board[Last(calls).itemID].status = needsTriageColumnName

====
